---- MODULE Spec2Model ----
(***************************************************************************)
(* Model of inference.py: generate_answer (tokenize, left-truncate,        *)
(* generate, decode, cut at the end marker) and main (interactive chat     *)
(* loop and batch run over examples).                                      *)
(*                                                                         *)
(* A text is a sequence of symbols (one-element strings or short labels);  *)
(* a token-id sequence is a sequence of naturals.                          *)
(***************************************************************************)
EXTENDS Integers, Sequences, FiniteSets, TLC

\* ------------------------------------------------------------------ bounds
MaxPromptLen == 3   \* longest prompt text handed to generate_answer alone
MaxNewLen == 2      \* most new tokens the model appends in one call
MaxBudget == 2      \* largest small positive max_src_len explored
MaxLines == 2       \* most lines in a data file
MaxTurns == 2       \* most non-empty inputs an operator types

\* ------------------------------------------------------- program constants
max_new_tokens == 400
safety_margin == 8
default_context_len == 2048

\* ------------------------------------------------------------ small helpers
SetMax(S) == CHOOSE x \in S : \A y \in S : y <= x
SetMin(S) == CHOOSE x \in S : \A y \in S : x <= y

SeqsUpTo(S, n) == UNION {[1..k -> S] : k \in 0..n}

RECURSIVE Flatten(_)
Flatten(ss) == IF ss = <<>> THEN <<>> ELSE Head(ss) \o Flatten(Tail(ss))

\* --------------------------------------------------------------- tokenizer
\* Character-level tokenizer with a begin marker and an end marker.
BOS == 1
EOS == 2
bos_text == <<"<s>">>
eos_token == <<"<", "/s>">>

CharList == <<"a", " ", "<", "/s>", "<s>", ":", "USER", "ASSISTANT",
              "Instruction", "Response", "x", "y">>

CharId(c) == 2 + (CHOOSE i \in 1..Len(CharList) : CharList[i] = c)

\* tokenizer(prompt).input_ids
Tokenize(text) == <<BOS>> \o [i \in 1..Len(text) |-> CharId(text[i])]

DecodeToken(t) ==
    IF t = BOS THEN bos_text
    ELSE IF t = EOS THEN eos_token
    ELSE <<CharList[t - 2]>>

\* tokenizer.decode(ids, skip_special_tokens=False)
Decode(ids) == Flatten([i \in 1..Len(ids) |-> DecodeToken(ids[i])])

\* ------------------------------------------------------ python primitives
\* a SliceLast that keeps one token too few
SliceLastOffByOne(ids, m) ==
    LET n == Len(ids)
        start == 1 - m
        lo == IF start < 0
              THEN (IF start + n < 0 THEN 0 ELSE start + n)
              ELSE (IF start > n THEN n ELSE start)
    IN SubSeq(ids, lo + 1, n)

\* ids[-m:] with Python's slice rules
SliceLast(ids, m) ==
    LET n == Len(ids)
        start == 0 - m
        lo == IF start < 0
              THEN (IF start + n < 0 THEN 0 ELSE start + n)
              ELSE (IF start > n THEN n ELSE start)
    IN SubSeq(ids, lo + 1, n)

\* s.find(sub, start): the first occurrence instead of the last
FindFirst(s, sub, start) ==
    LET cand == {i \in start..(Len(s) - Len(sub)) :
                    SubSeq(s, i + 1, i + Len(sub)) = sub}
    IN IF cand = {} THEN 0 - 1 ELSE SetMin(cand)

\* s.rfind(sub, start): 0-based position of the last occurrence beginning
\* at or after start, -1 when there is none
RFind(s, sub, start) ==
    LET cand == {i \in start..(Len(s) - Len(sub)) :
                    SubSeq(s, i + 1, i + Len(sub)) = sub}
    IN IF cand = {} THEN 0 - 1 ELSE SetMax(cand)

\* s[lo:hi] for 0 <= lo, 0 <= hi
Slice(s, lo, hi) ==
    LET h == IF hi > Len(s) THEN Len(s) ELSE hi
    IN IF lo >= h THEN <<>> ELSE SubSeq(s, lo + 1, h)

Whitespace == {" "}

\* str.strip()
Strip(t) ==
    LET keep == {i \in 1..Len(t) : t[i] \notin Whitespace}
    IN IF keep = {} THEN <<>> ELSE SubSeq(t, SetMin(keep), SetMax(keep))

\* --------------------------------------------------- generate_answer parts
MaxSrcLen(ctx) == ctx - max_new_tokens - safety_margin

\* lines 57-59: the ids handed to model.generate
BoundedIds(prompt, ctx) == SliceLast(Tokenize(prompt), MaxSrcLen(ctx))

\* lines 65-73: cut the decoded output down to the continuation
ExtractContinuation(out, ids) ==
    LET l_prompt == Len(Decode(ids))
        pos == RFind(out, eos_token, l_prompt)
    IN IF pos # 0 - 1 THEN Slice(out, l_prompt, pos)
                      ELSE Slice(out, l_prompt, Len(out))

\* the value generate_answer returns when the model appends newtoks
generate_answer(prompt, ctx, newtoks) ==
    LET ids == BoundedIds(prompt, ctx)
    IN ExtractContinuation(Decode(ids \o newtoks), ids)

\* --------------------------------------------------------------- inputs
PromptChars == {"a", " "}
Prompts == SeqsUpTo(PromptChars, MaxPromptLen)
NewTokens == {CharId("a"), CharId(" "), EOS}
Continuations == SeqsUpTo(NewTokens, MaxNewLen)
ContextLens == {100, default_context_len} \cup
               ((max_new_tokens + safety_margin - 1) ..
                (max_new_tokens + safety_margin + MaxBudget))

VARIABLES
    ga_pc,        \* position inside generate_answer
    ga_prompt,    \* argument prompt
    context_len,  \* argument context_len
    input_ids,    \* local input_ids
    output_ids,   \* generation_output[0]
    ga_output,    \* local output; the return value once ga_pc = "returned"
    tok_calls,    \* number of tokenizer(prompt) calls made
    gen_calls,    \* number of model.generate calls made
    pc,               \* position inside main
    model_type,       \* args.model_type
    template_name,    \* args.template_name
    data_file,        \* args.data_file and the lines of that file
    interactive,      \* args.interactive
    predictions_file, \* args.predictions_file, as path components
    examples,         \* local examples
    conv,             \* local conv
    index,            \* loop index of the batch loop
    inp,              \* local inp
    prompt,           \* local prompt
    response,         \* local output / response
    results,          \* local results
    dirs,             \* directories that exist
    file,             \* the predictions file
    reads,            \* number of non-empty inputs read so far
    returned          \* values generate_answer has returned to main, in order

ga_vars == <<ga_pc, ga_prompt, context_len, input_ids, output_ids,
             ga_output, tok_calls, gen_calls>>

main_vars == <<pc, model_type, template_name, data_file, interactive,
               predictions_file, examples, conv, index, inp, prompt,
               response, results, dirs, file, reads, returned>>

vars == <<ga_vars, main_vars>>

\* ------------------------------------------------------------ main: data
MODEL_CLASSES == {"bloom", "chatglm", "llama", "baichuan", "auto"}

\* get_conv_template's registry: the roles of each template
conv_templates == [vicuna |-> <<"USER", "ASSISTANT">>,
                   alpaca |-> <<"Instruction", "Response">>]

NoConv == [roles |-> <<>>, messages |-> <<>>]

\* get_conv_template(name) for a registered name: a conversation without
\* messages
get_conv_template(name) ==
    [roles |-> conv_templates[name], messages |-> <<>>]

\* conv.append_message(role, message)
append_message(c, role, message) ==
    [c EXCEPT !.messages = Append(@, <<role, message>>)]

\* one message of the rendered prompt: the role label, a colon and, for a
\* message with content, the content followed by its separator
RenderMessage(c, m) ==
    <<m[1], ":">> \o
    (IF m[2] = <<>> THEN <<>>
     ELSE <<" ">> \o m[2] \o
          (IF m[1] = c.roles[1] THEN <<" ">> ELSE eos_token))

\* conv.get_prompt()
get_prompt(c) ==
    Flatten([i \in 1..Len(c.messages) |-> RenderMessage(c, c.messages[i])])

\* conv.messages[-1][-1] = content
replace_last(c, content) ==
    [c EXCEPT !.messages[Len(c.messages)] = <<@[1], content>>]

\* the two built-in examples of line 127, each standing as one symbol
BuiltinExamples == << <<"x">>, <<"y">> >>

\* os.path.dirname of a path given as its components
Dirname(path) == SubSeq(path, 1, Len(path) - 1)

\* the directories os.makedirs(d, exist_ok=True) leaves in existence
MakeDirs(existing, d) == existing \cup {SubSeq(d, 1, k) : k \in 1..Len(d)}

NoFile == [written |-> FALSE, records |-> <<>>]

\* ---------------------------------------------------------- main: inputs
ModelTypeArgs == {"llama", "gpt5"}
TemplateArgs == {"vicuna", "alpaca", "nonesuch"}
LineValues == {<<>>, <<" ">>, <<"a", " ">>}
DataFileArgs == {[given |-> FALSE, lines |-> <<>>]} \cup
                {[given |-> TRUE, lines |-> ls] :
                    ls \in SeqsUpTo(LineValues, MaxLines)}
PredictionsFileArgs == {<<"predictions.json">>,
                        <<".", "predictions.json">>,
                        <<"out", "run", "predictions.json">>}
OperatorInputs == {<<>>, <<" ">>, <<"a">>}
\* the new tokens the model appends in a run of main: nothing; a reply with
\* leading whitespace and no end marker; a reply closed by the end marker;
\* a reply with an end marker inside, trailing whitespace and a closing marker
ModelReplies == {<<>>,
                 <<CharId(" "), CharId("a")>>,
                 <<CharId("a"), EOS>>,
                 <<EOS, CharId("a"), CharId(" "), EOS>>}

\* main has not run: the state of a bare call of generate_answer
MainNotStarted ==
    /\ pc = "none"
    /\ model_type = "llama"
    /\ template_name = "vicuna"
    /\ data_file = [given |-> FALSE, lines |-> <<>>]
    /\ interactive = FALSE
    /\ predictions_file = <<".", "predictions.json">>
    /\ examples = <<>>
    /\ conv = NoConv
    /\ index = 0
    /\ inp = <<>>
    /\ prompt = <<>>
    /\ response = <<>>
    /\ results = <<>>
    /\ dirs = {<<".">>}
    /\ file = NoFile
    /\ reads = 0
    /\ returned = <<>>

\* ------------------------------------------- generate_answer, step by step
GAInit ==
    /\ ga_pc = "entry"
    /\ ga_prompt \in Prompts
    /\ context_len \in ContextLens
    /\ input_ids = <<>>
    /\ output_ids = <<>>
    /\ ga_output = <<>>
    /\ tok_calls = 0
    /\ gen_calls = 0
    /\ MainNotStarted

\* line 57
GATokenize ==
    /\ ga_pc = "entry"
    /\ input_ids' = Tokenize(ga_prompt)
    /\ tok_calls' = tok_calls + 1
    /\ ga_pc' = "tokenized"
    /\ UNCHANGED <<ga_prompt, context_len, output_ids, ga_output, gen_calls>>
    /\ UNCHANGED main_vars

\* lines 58-59
GATruncate ==
    /\ ga_pc = "tokenized"
    /\ input_ids' = SliceLast(input_ids, MaxSrcLen(context_len))
    /\ ga_pc' = "bounded"
    /\ UNCHANGED <<ga_prompt, context_len, output_ids, ga_output,
                   tok_calls, gen_calls>>
    /\ UNCHANGED main_vars

\* lines 60-64: the model returns the input followed by new tokens
GAGenerate ==
    /\ ga_pc = "bounded"
    /\ \E newtoks \in Continuations : output_ids' = input_ids \o newtoks
    /\ gen_calls' = gen_calls + 1
    /\ ga_pc' = "generated"
    /\ UNCHANGED <<ga_prompt, context_len, input_ids, ga_output, tok_calls>>
    /\ UNCHANGED main_vars

\* lines 60-63: the model call raises
GAGenerateFails ==
    /\ ga_pc = "bounded"
    /\ gen_calls' = gen_calls + 1
    /\ ga_pc' = "raised"
    /\ UNCHANGED <<ga_prompt, context_len, input_ids, output_ids,
                   ga_output, tok_calls>>
    /\ UNCHANGED main_vars

\* lines 65-73
GAExtract ==
    /\ ga_pc = "generated"
    /\ ga_output' = ExtractContinuation(Decode(output_ids), input_ids)
    /\ ga_pc' = "returned"
    /\ UNCHANGED <<ga_prompt, context_len, input_ids, output_ids,
                   tok_calls, gen_calls>>
    /\ UNCHANGED main_vars

GANext == GATokenize \/ GATruncate \/ GAGenerate \/ GAGenerateFails
          \/ GAExtract

SpecGen == GAInit /\ [][GANext]_vars

\* ------------------------------------------------------------------- main
MainInit ==
    /\ pc = "start"
    /\ model_type \in ModelTypeArgs
    /\ template_name \in TemplateArgs
    /\ data_file \in DataFileArgs
    /\ interactive \in BOOLEAN
    /\ predictions_file \in PredictionsFileArgs
    /\ examples = <<>>
    /\ conv = NoConv
    /\ index = 0
    /\ inp = <<>>
    /\ prompt = <<>>
    /\ response = <<>>
    /\ results = <<>>
    /\ dirs = {<<".">>}
    /\ file = NoFile
    /\ reads = 0
    /\ returned = <<>>
    /\ ga_pc = "entry"
    /\ ga_prompt = <<>>
    /\ context_len = default_context_len
    /\ input_ids = <<>>
    /\ output_ids = <<>>
    /\ ga_output = <<>>
    /\ tok_calls = 0
    /\ gen_calls = 0

ga_locals == <<ga_pc, ga_prompt, context_len, input_ids, output_ids,
               ga_output>>
args == <<model_type, template_name, data_file, interactive,
          predictions_file>>

\* lines 99-108: look the model type up and load tokenizer and model
LoadModel ==
    /\ pc = "start"
    /\ pc' = IF model_type \in MODEL_CLASSES THEN "load_examples"
             ELSE "config_error"
    /\ UNCHANGED <<args, examples, conv, index, inp, prompt, response,
                   results, dirs, file, reads, returned, ga_locals,
                   tok_calls, gen_calls>>

\* lines 126-134
LoadExamples ==
    /\ pc = "load_examples"
    /\ examples' = IF ~data_file.given THEN BuiltinExamples
                   ELSE [i \in 1..Len(data_file.lines) |->
                            Strip(data_file.lines[i])]
    /\ pc' = "mode"
    /\ UNCHANGED <<args, conv, index, inp, prompt, response, results, dirs,
                   file, reads, returned, ga_locals, tok_calls, gen_calls>>

\* lines 138-140: interactive mode looks the template up once
StartInteractive ==
    /\ pc = "mode"
    /\ interactive
    /\ IF template_name \in DOMAIN conv_templates
       THEN /\ conv' = get_conv_template(template_name)
            /\ pc' = "await_input"
       ELSE /\ pc' = "config_error"
            /\ UNCHANGED conv
    /\ UNCHANGED <<args, examples, index, inp, prompt, response, results,
                   dirs, file, reads, returned, ga_locals, tok_calls,
                   gen_calls>>

\* ReadInput leaving the loop on an input that is empty once stripped
ReadInputStripped ==
    /\ pc = "await_input"
    /\ \E eof \in BOOLEAN, typed \in OperatorInputs :
          /\ (~eof /\ typed # <<>>) => reads < MaxTurns
          /\ inp' = IF eof THEN <<>> ELSE typed
    /\ pc' = IF Strip(inp') = <<>> THEN "closed" ELSE "append"
    /\ reads' = IF inp' = <<>> THEN reads ELSE reads + 1
    /\ UNCHANGED <<args, examples, conv, index, prompt, response, results,
                   dirs, file, returned, ga_locals, tok_calls, gen_calls>>

\* ReadInput leaving the loop on end of input only, not on an empty string
ReadInputEofOnly ==
    /\ pc = "await_input"
    /\ \E eof \in BOOLEAN, typed \in OperatorInputs :
          /\ (~eof /\ typed # <<>>) => reads < MaxTurns
          /\ inp' = IF eof THEN <<>> ELSE typed
          /\ pc' = IF eof THEN "closed" ELSE "append"
    /\ reads' = IF inp' = <<>> THEN reads ELSE reads + 1
    /\ UNCHANGED <<args, examples, conv, index, prompt, response, results,
                   dirs, file, returned, ga_locals, tok_calls, gen_calls>>

\* lines 142-149: read one input; empty input or end of input leaves the loop
ReadInput ==
    /\ pc = "await_input"
    /\ \E eof \in BOOLEAN, typed \in OperatorInputs :
          /\ (~eof /\ typed # <<>>) => reads < MaxTurns
          /\ inp' = IF eof THEN <<>> ELSE typed
    /\ pc' = IF inp' = <<>> THEN "closed" ELSE "append"
    /\ reads' = IF inp' = <<>> THEN reads ELSE reads + 1
    /\ UNCHANGED <<args, examples, conv, index, prompt, response, results,
                   dirs, file, returned, ga_locals, tok_calls, gen_calls>>

\* AppendMessages going on to the generation without rendering the prompt
AppendMessagesNoRender ==
    /\ pc = "append"
    /\ conv' = append_message(append_message(conv, conv.roles[1], inp),
                              conv.roles[2], <<>>)
    /\ pc' = "generate"
    /\ UNCHANGED <<args, examples, index, inp, prompt, response, results,
                   dirs, file, reads, returned, ga_locals, tok_calls,
                   gen_calls>>

\* lines 151-152
AppendMessages ==
    /\ pc = "append"
    /\ conv' = append_message(append_message(conv, conv.roles[1], inp),
                              conv.roles[2], <<>>)
    /\ pc' = "render"
    /\ UNCHANGED <<args, examples, index, inp, prompt, response, results,
                   dirs, file, reads, returned, ga_locals, tok_calls,
                   gen_calls>>

\* lines 154-155
RenderPrompt ==
    /\ pc = "render"
    /\ prompt' = get_prompt(conv)
    /\ pc' = "generate"
    /\ UNCHANGED <<args, examples, conv, index, inp, response, results,
                   dirs, file, reads, returned, ga_locals, tok_calls,
                   gen_calls>>

\* line 156: generate_answer(model, tokenizer, prompt, device) returns
Generate ==
    /\ pc = "generate"
    /\ \E newtoks \in ModelReplies :
          response' = generate_answer(prompt, default_context_len, newtoks)
    /\ returned' = Append(returned, response')
    /\ tok_calls' = tok_calls + 1
    /\ gen_calls' = gen_calls + 1
    /\ pc' = "store"
    /\ UNCHANGED <<args, examples, conv, index, inp, prompt, results, dirs,
                   file, reads, ga_locals>>

\* line 156: model.generate raises and the exception leaves main
GenerateFails ==
    /\ pc = "generate"
    /\ tok_calls' = tok_calls + 1
    /\ gen_calls' = gen_calls + 1
    /\ pc' = "aborted"
    /\ UNCHANGED <<args, examples, conv, index, inp, prompt, response,
                   results, dirs, file, reads, returned, ga_locals>>

\* StoreReply writing the reply over the message before the last one
StoreReplyWrongMessage ==
    /\ pc = "store"
    /\ conv' = [conv EXCEPT !.messages[Len(conv.messages) - 1] =
                                <<@[1], Strip(response)>>]
    /\ pc' = "await_input"
    /\ UNCHANGED <<args, examples, index, inp, prompt, response, results,
                   dirs, file, reads, returned, ga_locals, tok_calls,
                   gen_calls>>

\* StoreReply without the strip
StoreReplyUnstripped ==
    /\ pc = "store"
    /\ conv' = replace_last(conv, response)
    /\ pc' = "await_input"
    /\ UNCHANGED <<args, examples, index, inp, prompt, response, results,
                   dirs, file, reads, returned, ga_locals, tok_calls,
                   gen_calls>>

\* lines 157-159
StoreReply ==
    /\ pc = "store"
    /\ conv' = replace_last(conv, Strip(response))
    /\ pc' = "await_input"
    /\ UNCHANGED <<args, examples, index, inp, prompt, response, results,
                   dirs, file, reads, returned, ga_locals, tok_calls,
                   gen_calls>>

\* StartBatch taken whatever args.interactive says
StartBatchAnyMode ==
    /\ pc = "mode"
    /\ results' = <<>>
    /\ index' = 0
    /\ pc' = "next_example"
    /\ UNCHANGED <<args, examples, conv, inp, prompt, response, dirs, file,
                   reads, returned, ga_locals, tok_calls, gen_calls>>

\* lines 162-163
StartBatch ==
    /\ pc = "mode"
    /\ ~interactive
    /\ results' = <<>>
    /\ index' = 0
    /\ pc' = "next_example"
    /\ UNCHANGED <<args, examples, conv, inp, prompt, response, dirs, file,
                   reads, returned, ga_locals, tok_calls, gen_calls>>

\* NextExample creating the conversation once and reusing it afterwards
NextExampleSharedConv ==
    /\ pc = "next_example"
    /\ index < Len(examples)
    /\ IF template_name \in DOMAIN conv_templates
       THEN /\ conv' = IF conv = NoConv
                       THEN get_conv_template(template_name) ELSE conv
            /\ pc' = "batch_append"
       ELSE /\ pc' = "config_error"
            /\ UNCHANGED conv
    /\ UNCHANGED <<args, examples, index, inp, prompt, response, results,
                   dirs, file, reads, returned, ga_locals, tok_calls,
                   gen_calls>>

\* lines 164-165: take the next example and look the template up for it
NextExample ==
    /\ pc = "next_example"
    /\ index < Len(examples)
    /\ IF template_name \in DOMAIN conv_templates
       THEN /\ conv' = get_conv_template(template_name)
            /\ pc' = "batch_append"
       ELSE /\ pc' = "config_error"
            /\ UNCHANGED conv
    /\ UNCHANGED <<args, examples, index, inp, prompt, response, results,
                   dirs, file, reads, returned, ga_locals, tok_calls,
                   gen_calls>>

\* lines 166-167
BatchAppend ==
    /\ pc = "batch_append"
    /\ conv' = append_message(
                   append_message(conv, conv.roles[1], examples[index + 1]),
                   conv.roles[2], <<>>)
    /\ pc' = "batch_render"
    /\ UNCHANGED <<args, examples, index, inp, prompt, response, results,
                   dirs, file, reads, returned, ga_locals, tok_calls,
                   gen_calls>>

\* line 169
BatchRender ==
    /\ pc = "batch_render"
    /\ prompt' = get_prompt(conv)
    /\ pc' = "batch_generate"
    /\ UNCHANGED <<args, examples, conv, index, inp, response, results,
                   dirs, file, reads, returned, ga_locals, tok_calls,
                   gen_calls>>

\* line 170: generate_answer(model, tokenizer, prompt, device) returns
BatchGenerate ==
    /\ pc = "batch_generate"
    /\ \E newtoks \in ModelReplies :
          response' = generate_answer(prompt, default_context_len, newtoks)
    /\ returned' = Append(returned, response')
    /\ tok_calls' = tok_calls + 1
    /\ gen_calls' = gen_calls + 1
    /\ pc' = "collect"
    /\ UNCHANGED <<args, examples, conv, index, inp, prompt, results, dirs,
                   file, reads, ga_locals>>

\* BatchGenerateFails with the exception swallowed and the loop going on
BatchGenerateFailsSwallowed ==
    /\ pc = "batch_generate"
    /\ tok_calls' = tok_calls + 1
    /\ gen_calls' = gen_calls + 1
    /\ pc' = "collect"
    /\ UNCHANGED <<args, examples, conv, index, inp, prompt, response,
                   results, dirs, file, reads, returned, ga_locals>>

\* line 170: model.generate raises and the exception leaves main
BatchGenerateFails ==
    /\ pc = "batch_generate"
    /\ tok_calls' = tok_calls + 1
    /\ gen_calls' = gen_calls + 1
    /\ pc' = "aborted"
    /\ UNCHANGED <<args, examples, conv, index, inp, prompt, response,
                   results, dirs, file, reads, returned, ga_locals>>

\* the record line 174 appends
PredictionRecord(p, r) == [Input |-> p, Output |-> r]

\* Collect storing the stripped response
CollectStripped ==
    /\ pc = "collect"
    /\ results' = Append(results, PredictionRecord(prompt, Strip(response)))
    /\ index' = index + 1
    /\ pc' = "next_example"
    /\ UNCHANGED <<args, examples, conv, inp, prompt, response, dirs, file,
                   reads, returned, ga_locals, tok_calls, gen_calls>>

\* Collect storing the raw example as Input
CollectRawInput ==
    /\ pc = "collect"
    /\ results' = Append(results,
                         PredictionRecord(examples[index + 1], response))
    /\ index' = index + 1
    /\ pc' = "next_example"
    /\ UNCHANGED <<args, examples, conv, inp, prompt, response, dirs, file,
                   reads, returned, ga_locals, tok_calls, gen_calls>>

\* lines 171-174, and the step of the for loop
Collect ==
    /\ pc = "collect"
    /\ results' = Append(results, PredictionRecord(prompt, response))
    /\ index' = index + 1
    /\ pc' = "next_example"
    /\ UNCHANGED <<args, examples, conv, inp, prompt, response, dirs, file,
                   reads, returned, ga_locals, tok_calls, gen_calls>>

\* lines 176-179, reached when the examples are exhausted
WritePredictions ==
    /\ pc = "next_example"
    /\ index >= Len(examples)
    /\ LET dirname == Dirname(predictions_file)
       IN IF dirname = <<>>
          THEN /\ pc' = "io_error"
               /\ UNCHANGED <<dirs, file>>
          ELSE /\ dirs' = MakeDirs(dirs, dirname)
               /\ file' = [written |-> TRUE, records |-> results]
               /\ pc' = "done"
    /\ UNCHANGED <<args, examples, conv, index, inp, prompt, response,
                   results, reads, returned, ga_locals, tok_calls,
                   gen_calls>>

Next ==
    \/ LoadModel \/ LoadExamples
    \/ StartInteractive \/ ReadInput \/ AppendMessages \/ RenderPrompt
    \/ Generate \/ GenerateFails \/ StoreReply
    \/ StartBatch \/ NextExample \/ BatchAppend \/ BatchRender
    \/ BatchGenerate \/ BatchGenerateFails \/ Collect \/ WritePredictions

Spec == MainInit /\ [][Next]_vars

\* ===================================================== properties, Spec
Last(s) == s[Len(s)]

\* C4: an empty read (empty string or end of input) in AwaitInput closes the
\* session with no generation call made for it, nothing happens after the
\* close, and at the close the number of generation calls is the number of
\* non-empty inputs read (zero when the first read is empty).
C4_InteractiveTermination ==
    /\ [](pc = "closed" =>
            /\ inp = <<>>
            /\ gen_calls = reads
            /\ Len(returned) = reads)
    /\ [][(pc = "await_input" /\ inp' = <<>>) =>
            (pc' = "closed" /\ gen_calls' = gen_calls)]_vars
    /\ [][pc # "closed"]_vars

\* C4 witness: the session is closed by its first read
C4_Witness == pc = "closed" /\ reads = 0 /\ gen_calls = 0

\* C5 as stated: every collected Output is the stripped continuation.
C5_OutputStripped ==
    ~interactive =>
        \A i \in 1..Len(results) : results[i].Output = Strip(returned[i])

\* C5 amended: every collected Output is the continuation exactly as
\* generate_answer returned it, whitespace included.
C5_OutputVerbatim ==
    ~interactive =>
        /\ Len(results) <= Len(returned)
        /\ \A i \in 1..Len(results) : results[i].Output = returned[i]

\* C5 witness: a written record whose Output starts or ends with whitespace
C5_Witness ==
    /\ file.written
    /\ \E i \in 1..Len(file.records) :
          file.records[i].Output # Strip(file.records[i].Output)

\* the prompt of a fresh conversation holding example e and a placeholder
FreshPrompt(e) ==
    LET c == get_conv_template(template_name)
    IN get_prompt(append_message(append_message(c, c.roles[1], e),
                                 c.roles[2], <<>>))

\* C6: a written predictions file has one record per example, in the order
\* of the examples, and the Input of record i is the rendered prompt of
\* example i, which is never the raw example text.
C6_OneRecordPerExample ==
    file.written =>
        /\ Len(file.records) = Len(examples)
        /\ \A i \in 1..Len(examples) :
              /\ file.records[i].Input = FreshPrompt(examples[i])
              /\ file.records[i].Input # examples[i]

\* C6 witness: a file with two records has been written
C6_Witness == file.written /\ Len(file.records) = 2

\* C7: with a data file, the examples are the stripped non-empty lines.
NonEmpty(t) == t # <<>>

C7_NonEmptyLinesOnly ==
    (data_file.given /\ pc \notin {"start", "load_examples", "config_error"})
        => examples = SelectSeq([i \in 1..Len(data_file.lines) |->
                                    Strip(data_file.lines[i])], NonEmpty)

\* C8: in a batch run a failed generation call ends the run on the spot,
\* with no later call and no file; a file exists only when every example's
\* call has returned.
C8_BatchAbort ==
    ~interactive =>
        /\ gen_calls > Len(returned) =>
              /\ pc = "aborted"
              /\ gen_calls = Len(returned) + 1
              /\ index = Len(returned)
              /\ Len(results) = index
              /\ ~file.written
        /\ file.written =>
              /\ Len(returned) = Len(examples)
              /\ gen_calls = Len(examples)

\* C8 witness: the call for the second example failed
C8_Witness ==
    ~interactive /\ pc = "aborted" /\ index = 1 /\ ~file.written

C10_ConfigFailsFast ==
    (template_name \notin DOMAIN conv_templates
       \/ model_type \notin MODEL_CLASSES) =>
        /\ gen_calls = 0
        /\ pc \notin {"done", "closed"}
        /\ ~file.written

\* ================================================== properties, SpecGen
LastN(s, n) == IF n <= 0 THEN <<>> ELSE SubSeq(s, Len(s) - n + 1, Len(s))

GenerateCalled == ga_pc \in {"generated", "raised", "returned"}

\* C1: whenever model.generate has been called, the ids passed to it are at
\* most max_src_len long, and when the full tokenization is longer than
\* max_src_len they are exactly its last max_src_len tokens, in order.
C1_TruncationBound ==
    GenerateCalled =>
        LET full == Tokenize(ga_prompt)
            m == MaxSrcLen(context_len)
        IN /\ Len(input_ids) <= m
           /\ Len(full) > m =>
                 /\ Len(input_ids) = m
                 /\ input_ids = LastN(full, m)

\* C2: with a non-positive budget neither the tokenizer nor the model is
\* ever called.
C2_BudgetGuard ==
    MaxSrcLen(context_len) <= 0 => tok_calls = 0 /\ gen_calls = 0

\* C3: once generate_answer has returned, (a) if the decoded output is the
\* decoded input, a reply and the end marker, the result is that reply;
\* (b) if no end marker begins at or after l_prompt, the result is all of
\* the output from l_prompt on; either way the result is a piece of the
\* output lying wholly at or after l_prompt.
EndsWithMarker(out, l) ==
    /\ Len(out) >= l + Len(eos_token)
    /\ SubSeq(out, Len(out) - Len(eos_token) + 1, Len(out)) = eos_token

NoMarkerFrom(out, l) ==
    \A i \in l..(Len(out) - Len(eos_token)) :
        SubSeq(out, i + 1, i + Len(eos_token)) # eos_token

C3_ContinuationExtraction ==
    ga_pc = "returned" =>
        LET out == Decode(output_ids)
            l == Len(Decode(input_ids))
        IN /\ EndsWithMarker(out, l) =>
                 ga_output = SubSeq(out, l + 1, Len(out) - Len(eos_token))
           /\ NoMarkerFrom(out, l) =>
                 ga_output = SubSeq(out, l + 1, Len(out))
           /\ (EndsWithMarker(out, l) \/ NoMarkerFrom(out, l)) =>
                 \E j \in l..Len(out) :
                     ga_output = SubSeq(out, l + 1, j)

\* C3 witness: the output ends with the marker and the reply before it is
\* itself one end marker
C3_Witness ==
    /\ ga_pc = "returned"
    /\ EndsWithMarker(Decode(output_ids), Len(Decode(input_ids)))
    /\ ga_output = eos_token

\* a text holding the end marker somewhere
ContainsMarker(t) ==
    \E i \in 0..(Len(t) - Len(eos_token)) :
        SubSeq(t, i + 1, i + Len(eos_token)) = eos_token

\* C11: the text generate_answer returns never contains the end marker.
C11_NoMarkerInResult ==
    ga_pc = "returned" => ~ContainsMarker(ga_output)

\* C13: with a positive max_src_len and a tokenization no longer than it,
\* the ids passed to model.generate are the full tokenization.
C13_TruncationNoOp ==
    (GenerateCalled /\ MaxSrcLen(context_len) > 0
       /\ Len(Tokenize(ga_prompt)) <= MaxSrcLen(context_len))
        => input_ids = Tokenize(ga_prompt)

\* C13 witness: a tokenization exactly as long as a positive max_src_len
\* has been passed on
C13_Witness ==
    /\ GenerateCalled
    /\ MaxSrcLen(context_len) > 0
    /\ Len(Tokenize(ga_prompt)) = MaxSrcLen(context_len)
    /\ Len(input_ids) = MaxSrcLen(context_len)

\* C12: in a batch run, from the render of an example to its collection the
\* conversation holds exactly the example as user message and an empty
\* assistant placeholder, and once rendered the prompt is the rendering of
\* those two messages alone, whatever was generated before.
C12_FreshConversation ==
    (~interactive /\ pc \in {"batch_render", "batch_generate", "collect"}) =>
        /\ conv.messages = << <<conv.roles[1], examples[index + 1]>>,
                              <<conv.roles[2], <<>> >> >>
        /\ conv.roles = conv_templates[template_name]
        /\ pc # "batch_render" =>
              prompt = <<conv.roles[1], ":">>
                       \o (IF examples[index + 1] = <<>> THEN <<>>
                           ELSE <<" ">> \o examples[index + 1] \o <<" ">>)
                       \o <<conv.roles[2], ":">>

\* C12 witness: the second example is rendered after a non-empty reply to
\* the first
C12_Witness ==
    /\ ~interactive
    /\ pc = "batch_generate"
    /\ index = 1
    /\ Len(returned) = 1
    /\ returned[1] # <<>>

C15_WritesAnyPath ==
    (~interactive /\ pc \in {"done", "io_error"}) =>
        /\ pc = "done"
        /\ file = [written |-> TRUE, records |-> results]
        /\ Dirname(predictions_file) \in dirs

\* the order of the steps of a cycle, as pairs of positions of main
InteractiveOrder ==
    {<<"await_input", "append">>, <<"await_input", "closed">>,
     <<"append", "render">>, <<"render", "generate">>,
     <<"generate", "store">>, <<"generate", "aborted">>,
     <<"store", "await_input">>}

BatchOrder ==
    {<<"next_example", "batch_append">>, <<"next_example", "config_error">>,
     <<"next_example", "done">>, <<"next_example", "io_error">>,
     <<"batch_append", "batch_render">>, <<"batch_render", "batch_generate">>,
     <<"batch_generate", "collect">>, <<"batch_generate", "aborted">>,
     <<"collect", "next_example">>}

InCycle == pc \notin {"start", "load_examples", "mode"}

\* C16: the steps of a cycle follow the fixed order in both modes; each
\* generation call is made on the prompt rendered from the conversation in
\* the same cycle and is the only one of its cycle; the reply is stored
\* and the next input read only after the call has returned.
C16_CycleOrder ==
    /\ [][InCycle => <<pc, pc'>> \in
             (IF interactive THEN InteractiveOrder ELSE BatchOrder)]_vars
    /\ [][gen_calls' \in {gen_calls, gen_calls + 1}
          /\ (gen_calls' # gen_calls => pc \in {"generate", "batch_generate"})
         ]_vars
    /\ [](interactive =>
            /\ pc \in {"generate", "store"} => prompt = get_prompt(conv)
            /\ pc \in {"append", "render", "generate"} =>
                  /\ gen_calls = reads - 1
                  /\ Len(returned) = reads - 1
            /\ pc = "store" =>
                  /\ gen_calls = reads
                  /\ Last(conv.messages)[2] = <<>>
                  /\ response = Last(returned)
            /\ pc = "await_input" =>
                  /\ gen_calls = reads
                  /\ Len(returned) = reads)
    /\ [](~interactive =>
            /\ pc \in {"batch_generate", "collect"} =>
                  prompt = get_prompt(conv)
            /\ pc \in {"batch_append", "batch_render", "batch_generate"} =>
                  gen_calls = index
            /\ pc = "collect" => gen_calls = index + 1)

\* C16 witness: the second cycle's call has returned and its reply is about
\* to be stored
C16_Witness ==
    /\ interactive
    /\ pc = "store"
    /\ reads = 2
    /\ gen_calls = 2

\* main has stopped
Stopped == pc \in {"done", "closed", "aborted", "config_error", "io_error"}

\* C17: a batch run with a usable configuration in which every generation
\* call returned stops only after one call per example, in order, with the
\* result file written.
C17_BatchCompletes ==
    (/\ ~interactive
     /\ model_type \in MODEL_CLASSES
     /\ template_name \in DOMAIN conv_templates
     /\ gen_calls = Len(returned)
     /\ Stopped) =>
        /\ pc = "done"
        /\ index = Len(examples)
        /\ gen_calls = Len(examples)
        /\ file = [written |-> TRUE, records |-> results]
        /\ \A i \in 1..Len(examples) :
              results[i].Input = FreshPrompt(examples[i])

InteractivePositions ==
    {"await_input", "append", "render", "generate", "store", "closed"}

BatchPositions ==
    {"next_example", "batch_append", "batch_render", "batch_generate",
     "collect", "done", "io_error"}

\* C18: an interactive session never enters the batch loop, collects no
\* record and writes no file; a batch run never reads an input and never
\* enters the interactive loop.
C18_ModesExclusive ==
    /\ interactive =>
          /\ pc \notin BatchPositions
          /\ index = 0
          /\ results = <<>>
          /\ file = NoFile
          /\ dirs = {<<".">>}
          /\ gen_calls <= reads
    /\ ~interactive =>
          /\ pc \notin InteractivePositions
          /\ reads = 0
          /\ inp = <<>>
          /\ gen_calls <= Len(examples)

\* C18 witness: an interactive session with examples loaded from a data
\* file has generated a reply and closed
C18_Witness ==
    /\ interactive
    /\ data_file.given
    /\ Len(examples) = 2
    /\ pc = "closed"
    /\ gen_calls = 1

\* C19: a read that yields a non-empty input, whitespace-only included,
\* never closes the session; the input becomes the user message of the
\* cycle unchanged and the cycle makes one generation call; the session
\* closes only on an empty read.
C19_WhitespaceInput ==
    /\ [][(pc = "await_input" /\ pc' # "await_input") =>
            /\ pc' = (IF inp' = <<>> THEN "closed" ELSE "append")
            /\ conv' = conv]_vars
    /\ [](pc \in {"render", "generate", "store"} =>
            /\ inp # <<>>
            /\ conv.messages[Len(conv.messages) - 1] = <<conv.roles[1], inp>>)
    /\ [](pc = "store" => gen_calls = reads)

\* C19 witness: a generation call has been made for an input of one space
C19_Witness ==
    /\ pc = "store"
    /\ inp = <<" ">>
    /\ conv.messages[Len(conv.messages) - 1][2] = <<" ">>

====
